---- MODULE Spec2Model ----
(***************************************************************************)
(* Model of the metrics-and-scoring pipeline of the rowing-exercise        *)
(* classifier: angle_utils.py (angle_3points), metrics.py (series,         *)
(* smoothing, global metrics, repetition detection) and scoring.py         *)
(* (score_row_two_notes).                                                  *)
(*                                                                         *)
(* Numbers.  Python floats are modelled as exact rationals <<n, d>> with   *)
(* d > 0 and gcd(n, d) = 1; an Optional[float] or Optional[Point2D] that   *)
(* is None is the empty tuple <<>>.  A point is a pair <<x, y>> of         *)
(* integers.  A dict is a function from a set of string keys.  pc tells    *)
(* which results have been computed.                                       *)
(***************************************************************************)
EXTENDS Integers, Sequences, FiniteSets, TLC

VARIABLES
    pc,              \* position of the driver: which call comes next
    global_metrics,  \* scoring.py: argument of score_row_two_notes
    cfg,             \* scoring.py: keyword arguments of score_row_two_notes
    result,          \* scoring.py: the ScoreResult2 returned (None before the call)
    frames,          \* metrics.py: argument of compute_series_from_landmarks
    smooth_window,   \* metrics.py: keyword argument smooth_window
    series,          \* metrics.py: the SeriesResult returned (None before the call)
    wrist_shoulder_dist, \* metrics.py: argument of detect_reps_by_wrist_shoulder_distance
    min_frames_per_rep,  \* metrics.py: keyword argument
    prominence,          \* metrics.py: keyword argument
    reps,                \* metrics.py: the list of RepSegment returned (empty before the call)
    fn_value,        \* scoring.py: argument of _score_from_range and _score_from_max
    fn_band,         \* scoring.py: their arguments good_min, good_max, falloff
    fn_scores,       \* scoring.py: what the two functions returned (None before the calls)
    ma_values,       \* metrics.py: argument of moving_average
    ma_window,       \* metrics.py: argument of moving_average
    ma_out           \* metrics.py: the list moving_average returned (empty before the call)

scoreFnVars == <<fn_value, fn_band, fn_scores>>
smoothVars == <<ma_values, ma_window, ma_out>>

vars == <<pc, global_metrics, cfg, result, frames, smooth_window, series,
          wrist_shoulder_dist, min_frames_per_rep, prominence, reps,
          fn_value, fn_band, fn_scores, ma_values, ma_window, ma_out>>

-----------------------------------------------------------------------------
(* Optional values and exact rational arithmetic (Python float, idealised) *)

None == <<>>

Abs(x) == IF x < 0 THEN -x ELSE x

RECURSIVE Gcd(_, _)
Gcd(a, b) == IF b = 0 THEN a ELSE Gcd(b, a % b)

\* the rational n/d in lowest terms with a positive denominator (d # 0)
R(n, d) ==
    LET g == Gcd(Abs(n), Abs(d))
        s == IF d < 0 THEN -1 ELSE 1
    IN  <<(s * n) \div g, (s * d) \div g>>

Num(n) == <<n, 1>>

RAdd(a, b) == R(a[1] * b[2] + b[1] * a[2], a[2] * b[2])
RSub(a, b) == R(a[1] * b[2] - b[1] * a[2], a[2] * b[2])
RMul(a, b) == R(a[1] * b[1], a[2] * b[2])
RDiv(a, b) == R(a[1] * b[2], a[2] * b[1])
RLt(a, b) == a[1] * b[2] < b[1] * a[2]
RLe(a, b) == a[1] * b[2] <= b[1] * a[2]
RMin(a, b) == IF RLt(b, a) THEN b ELSE a
RMax(a, b) == IF RLt(a, b) THEN b ELSE a

\* dict.get(key): None for a missing key
Get(d, k) == IF k \in DOMAIN d THEN d[k] ELSE None

-----------------------------------------------------------------------------
(* scoring.py                                                              *)

_clamp(x, lo, hi) == RMax(lo, RMin(hi, x))

\* _score_from_range with a fault: the distance below the band with its sign flipped
_score_from_range_SignSlip(value, good_min, good_max, falloff) ==
    IF RLe(good_min, value) /\ RLe(value, good_max)
    THEN Num(100)
    ELSE LET dist == IF RLt(value, good_min) THEN RSub(value, good_min)
                     ELSE RSub(value, good_max)
         IN  _clamp(RMul(Num(100), RSub(Num(1), RDiv(dist, falloff))), Num(0), Num(100))

\* _score_from_range with a fault: the clamp of the linear fall-off left out
_score_from_range_Unclamped(value, good_min, good_max, falloff) ==
    IF RLe(good_min, value) /\ RLe(value, good_max)
    THEN Num(100)
    ELSE LET dist == IF RLt(value, good_min) THEN RSub(good_min, value)
                     ELSE RSub(value, good_max)
         IN  RMul(Num(100), RSub(Num(1), RDiv(dist, falloff)))

_score_from_range(value, good_min, good_max, falloff) ==
    IF RLe(good_min, value) /\ RLe(value, good_max)
    THEN Num(100)
    ELSE LET dist == IF RLt(value, good_min) THEN RSub(good_min, value)
                     ELSE RSub(value, good_max)
         IN  _clamp(RMul(Num(100), RSub(Num(1), RDiv(dist, falloff))), Num(0), Num(100))

_score_from_max(value, good_max, falloff) ==
    IF RLe(value, good_max)
    THEN Num(100)
    ELSE LET dist == RSub(value, good_max)
         IN  _clamp(RMul(Num(100), RSub(Num(1), RDiv(dist, falloff))), Num(0), Num(100))

\* the default thresholds ok = 85.0, mid = 55.0 of _label
LabelOk == 85
LabelMid == 55

\* _label with a fault: the "ok" threshold compared strictly
_label_StrictOk(score) ==
    IF RLt(Num(LabelOk), score) THEN "ok"
    ELSE IF RLe(Num(LabelMid), score) THEN "medio"
    ELSE "ruim"

_label(score) ==
    IF RLe(Num(LabelOk), score) THEN "ok"
    ELSE IF RLe(Num(LabelMid), score) THEN "medio"
    ELSE "ruim"

\* the keyword defaults of score_row_two_notes
DefaultCfg ==
    [ elbow_amp_good_min |-> Num(100), elbow_amp_good_max |-> Num(120),
      elbow_amp_falloff |-> Num(25),
      elbow_min_target |-> R(5967, 100), elbow_min_tol |-> Num(4),
      elbow_min_falloff |-> Num(8),
      elbow_w_amp |-> R(55, 100), elbow_w_min |-> R(45, 100),
      trunk_var_good_max |-> Num(45), trunk_var_falloff |-> Num(25),
      trunk_mean_good_min |-> Num(85), trunk_mean_good_max |-> Num(105),
      trunk_mean_falloff |-> Num(25),
      trunk_std_good_max |-> Num(18), trunk_std_falloff |-> Num(20),
      trunk_max_target |-> R(11273, 100), trunk_max_tol |-> Num(4),
      trunk_max_falloff |-> Num(10), trunk_w_max |-> R(25, 100),
      trunk_w_posture |-> R(65, 100), trunk_w_stability |-> R(35, 100),
      wrist_shoulder_range_good_min |-> R(16, 100),
      wrist_shoulder_range_good_max |-> R(22, 100),
      wrist_shoulder_range_falloff |-> R(8, 100),
      wrist_hint_weight |-> Num(0) ]

\* the warning texts (ASCII transliterations of the literals in the source)
MsgElbowAmpMissing == "Nao foi possivel medir a amplitude do cotovelo (pose falhou ou video ruim)."
MsgElbowAmpShort == "Amplitude curta no cotovelo (puxou pouco / encurtou a puxada)."
MsgElbowAmpHigh == "Amplitude alta/inconsistente no cotovelo (pode ser deteccao ou execucao irregular)."
MsgElbowMinMissing == "Nao foi possivel medir o angulo minimo do cotovelo (sem penalidade total)."
MsgElbowMinLow == "A puxada esta subindo pro peito. Puxe no sentido da cintura (cotovelos indo pra tras e pra baixo)."
MsgElbowMinHigh == "Pouca contracao no final da puxada. Contraia mais e finalize trazendo o cotovelo mais pra tras."
MsgWristLow == "A mao quase nao se aproxima do tronco. Faca uma puxada mais completa e controlada."
MsgWristHigh == "A mao esta vindo demais (pode estar passando do ponto e gerando compensacoes)."
MsgTrunkVarStrong == "Roubo forte com o tronco (muito balanco). Trave o core e mantenha o tronco mais estavel."
MsgTrunkVarMild == "Tronco mexendo alem do ideal. Reduza o balanco e faca a forca com costas e bracos."
MsgTrunkPostureMissing == "Nao foi possivel medir o tronco (postura) (sem penalidade)."
MsgTrunkMeanLow == "Tronco muito inclinado (abaixo do ideal)."
MsgTrunkMeanHigh == "Tronco muito reto/aberto (acima do ideal)."
MsgTrunkStdMissing == "Nao foi possivel medir estabilidade do tronco (sem penalidade)."
MsgTrunkStdStrong == "Tronco indo e voltando demais (boneco de posto)."
MsgTrunkStdMild == "Tronco instavel (controle melhor o balanco)."
MsgTrunkMaxMissing == "Nao foi possivel medir o angulo maximo do tronco (sem penalidade)."
MsgTrunkMaxStrong == "Tronco abrindo demais no final (jogando o corpo). Trave o core e finalize sem inclinar."
MsgTrunkMaxMild == "Tronco abrindo mais que o ideal. Controle o movimento e evite compensar com o corpo."

\* one sub-criterion's outcome: its sub-score, the warnings it appends and the
\* details entries it writes
Part(s, w, d) == [score |-> s, warnings |-> w, details |-> d]

NoDetails == [k \in {} |-> None]

\* lines 126-137: 1) amplitude
ElbowAmpPart(elbow_amp, c) ==
    IF elbow_amp = None
    THEN Part(Num(0), <<MsgElbowAmpMissing>>, NoDetails)
    ELSE Part(_score_from_range(elbow_amp, c.elbow_amp_good_min,
                                c.elbow_amp_good_max, c.elbow_amp_falloff),
              IF RLt(elbow_amp, c.elbow_amp_good_min) THEN <<MsgElbowAmpShort>>
              ELSE IF RLt(c.elbow_amp_good_max, elbow_amp) THEN <<MsgElbowAmpHigh>>
              ELSE <<>>,
              [k \in {"elbow_amplitude"} |-> elbow_amp])

\* ElbowMinPart with a fault: the neutral stand-in of the auxiliary criteria used
ElbowMinPart_StandIn100(elbow_min, c) ==
    IF elbow_min = None
    THEN Part(Num(100), <<MsgElbowMinMissing>>, NoDetails)
    ELSE LET good_min == RSub(c.elbow_min_target, c.elbow_min_tol)
             good_max == RAdd(c.elbow_min_target, c.elbow_min_tol)
         IN  Part(_score_from_range(elbow_min, good_min, good_max, c.elbow_min_falloff),
                  IF RLt(elbow_min, good_min) THEN <<MsgElbowMinLow>>
                  ELSE IF RLt(good_max, elbow_min) THEN <<MsgElbowMinHigh>>
                  ELSE <<>>,
                  [k \in {"elbow_min"} |-> elbow_min])

\* lines 139-157: 2) elbow_min
ElbowMinPart(elbow_min, c) ==
    IF elbow_min = None
    THEN Part(Num(70), <<MsgElbowMinMissing>>, NoDetails)
    ELSE LET good_min == RSub(c.elbow_min_target, c.elbow_min_tol)
             good_max == RAdd(c.elbow_min_target, c.elbow_min_tol)
         IN  Part(_score_from_range(elbow_min, good_min, good_max, c.elbow_min_falloff),
                  IF RLt(elbow_min, good_min) THEN <<MsgElbowMinLow>>
                  ELSE IF RLt(good_max, elbow_min) THEN <<MsgElbowMinHigh>>
                  ELSE <<>>,
                  [k \in {"elbow_min"} |-> elbow_min])

\* lines 159-173: 3) the wrist_shoulder_range hint
WristHintPart(wrist_shoulder_range, c) ==
    IF wrist_shoulder_range = None
    THEN Part(Num(100), <<>>, NoDetails)
    ELSE Part(_score_from_range(wrist_shoulder_range, c.wrist_shoulder_range_good_min,
                                c.wrist_shoulder_range_good_max,
                                c.wrist_shoulder_range_falloff),
              IF RLt(wrist_shoulder_range, c.wrist_shoulder_range_good_min)
              THEN <<MsgWristLow>>
              ELSE IF RLt(c.wrist_shoulder_range_good_max, wrist_shoulder_range)
              THEN <<MsgWristHigh>>
              ELSE <<>>,
              [k \in {"wrist_shoulder_range"} |-> wrist_shoulder_range])

\* ScoreElbow with a fault: the final clamp left out
ScoreElbow_NoClamp(score_elbow_amp, score_elbow_min, score_wrist_hint, c) ==
    LET base == RAdd(RMul(c.elbow_w_amp, score_elbow_amp),
                     RMul(c.elbow_w_min, score_elbow_min))
    IN  IF RLt(Num(0), c.wrist_hint_weight)
        THEN RAdd(RMul(RSub(Num(1), c.wrist_hint_weight), base),
                  RMul(c.wrist_hint_weight, score_wrist_hint))
        ELSE base

\* ScoreElbow with a fault: the hint blended for every non-zero weight
ScoreElbow_BlendNonZero(score_elbow_amp, score_elbow_min, score_wrist_hint, c) ==
    LET base == RAdd(RMul(c.elbow_w_amp, score_elbow_amp),
                     RMul(c.elbow_w_min, score_elbow_min))
        blended == IF c.wrist_hint_weight # Num(0)
                   THEN RAdd(RMul(RSub(Num(1), c.wrist_hint_weight), base),
                             RMul(c.wrist_hint_weight, score_wrist_hint))
                   ELSE base
    IN  _clamp(blended, Num(0), Num(100))

\* lines 175-180: the elbow composite
ScoreElbow(score_elbow_amp, score_elbow_min, score_wrist_hint, c) ==
    LET base == RAdd(RMul(c.elbow_w_amp, score_elbow_amp),
                     RMul(c.elbow_w_min, score_elbow_min))
        blended == IF RLt(Num(0), c.wrist_hint_weight)
                   THEN RAdd(RMul(RSub(Num(1), c.wrist_hint_weight), base),
                             RMul(c.wrist_hint_weight, score_wrist_hint))
                   ELSE base
    IN  _clamp(blended, Num(0), Num(100))

\* x > good_max + falloff * 0.60: the threshold of the strong warnings
Strong(x, good_max, falloff) == RLt(RAdd(good_max, RMul(falloff, R(60, 100))), x)

\* lines 189-209: 1) posture: trunk_variation, else trunk_mean
TrunkPosturePart(trunk_var, trunk_mean, c) ==
    IF trunk_var # None
    THEN Part(_score_from_max(trunk_var, c.trunk_var_good_max, c.trunk_var_falloff),
              IF Strong(trunk_var, c.trunk_var_good_max, c.trunk_var_falloff)
              THEN <<MsgTrunkVarStrong>>
              ELSE IF RLt(c.trunk_var_good_max, trunk_var) THEN <<MsgTrunkVarMild>>
              ELSE <<>>,
              [k \in {"trunk_variation"} |-> trunk_var])
    ELSE IF trunk_mean = None
    THEN Part(Num(100), <<MsgTrunkPostureMissing>>, NoDetails)
    ELSE Part(_score_from_range(trunk_mean, c.trunk_mean_good_min,
                                c.trunk_mean_good_max, c.trunk_mean_falloff),
              IF RLt(trunk_mean, c.trunk_mean_good_min) THEN <<MsgTrunkMeanLow>>
              ELSE IF RLt(c.trunk_mean_good_max, trunk_mean) THEN <<MsgTrunkMeanHigh>>
              ELSE <<>>,
              [k \in {"trunk_mean"} |-> trunk_mean])

\* lines 211-222: 2) stability: trunk_std
TrunkStabilityPart(trunk_std, c) ==
    IF trunk_std = None
    THEN Part(Num(100), <<MsgTrunkStdMissing>>, NoDetails)
    ELSE Part(_score_from_max(trunk_std, c.trunk_std_good_max, c.trunk_std_falloff),
              IF Strong(trunk_std, c.trunk_std_good_max, c.trunk_std_falloff)
              THEN <<MsgTrunkStdStrong>>
              ELSE IF RLt(c.trunk_std_good_max, trunk_std) THEN <<MsgTrunkStdMild>>
              ELSE <<>>,
              [k \in {"trunk_std"} |-> trunk_std])

\* TrunkMaxPart with a fault: the second test an `if` instead of an `elif`
TrunkMaxPart_IfNotElif(trunk_max, c) ==
    IF trunk_max = None
    THEN Part(Num(100), <<MsgTrunkMaxMissing>>, NoDetails)
    ELSE LET good_max == RAdd(c.trunk_max_target, c.trunk_max_tol)
         IN  Part(_score_from_max(trunk_max, good_max, c.trunk_max_falloff),
                  (IF Strong(trunk_max, good_max, c.trunk_max_falloff)
                   THEN <<MsgTrunkMaxStrong>> ELSE <<>>)
                  \o (IF RLt(good_max, trunk_max) THEN <<MsgTrunkMaxMild>> ELSE <<>>),
                  [k \in {"trunk_max"} |-> trunk_max])

\* lines 224-237: 3) trunk_max
TrunkMaxPart(trunk_max, c) ==
    IF trunk_max = None
    THEN Part(Num(100), <<MsgTrunkMaxMissing>>, NoDetails)
    ELSE LET good_max == RAdd(c.trunk_max_target, c.trunk_max_tol)
         IN  Part(_score_from_max(trunk_max, good_max, c.trunk_max_falloff),
                  IF Strong(trunk_max, good_max, c.trunk_max_falloff)
                  THEN <<MsgTrunkMaxStrong>>
                  ELSE IF RLt(good_max, trunk_max) THEN <<MsgTrunkMaxMild>>
                  ELSE <<>>,
                  [k \in {"trunk_max"} |-> trunk_max])

\* lines 246-249: the clamped weight of trunk_max and the posture+stability base
\* TrunkWMax with a fault: the weight clamped into [0, 1]
TrunkWMax_ClampToOne(c) == _clamp(c.trunk_w_max, Num(0), Num(1))

TrunkWMax(c) == _clamp(c.trunk_w_max, Num(0), R(7, 10))

\* ScoreTrunkBase with a fault: the posture weight read from the elbow's elbow_w_amp
ScoreTrunkBase_ElbowWeight(score_trunk_posture, score_trunk_stability, c) ==
    RAdd(RMul(c.elbow_w_amp, score_trunk_posture),
         RMul(c.trunk_w_stability, score_trunk_stability))

ScoreTrunkBase(score_trunk_posture, score_trunk_stability, c) ==
    RAdd(RMul(c.trunk_w_posture, score_trunk_posture),
         RMul(c.trunk_w_stability, score_trunk_stability))

\* ScoreTrunk with a fault: w_rest taken from the unclamped trunk_w_max
ScoreTrunk_RestUnclamped(score_trunk_posture, score_trunk_stability, score_trunk_max, c) ==
    LET w_max == TrunkWMax(c)
        w_rest == RSub(Num(1), c.trunk_w_max)
        score_trunk_base == ScoreTrunkBase(score_trunk_posture, score_trunk_stability, c)
    IN  _clamp(RAdd(RMul(w_rest, score_trunk_base), RMul(w_max, score_trunk_max)),
               Num(0), Num(100))

\* lines 246-251: the trunk composite
ScoreTrunk(score_trunk_posture, score_trunk_stability, score_trunk_max, c) ==
    LET w_max == TrunkWMax(c)
        w_rest == RSub(Num(1), w_max)
        score_trunk_base == ScoreTrunkBase(score_trunk_posture, score_trunk_stability, c)
    IN  _clamp(RAdd(RMul(w_rest, score_trunk_base), RMul(w_max, score_trunk_max)),
               Num(0), Num(100))

\* the union of dicts with disjoint keys
Merge(d, e) == [k \in (DOMAIN d) \cup (DOMAIN e) |-> IF k \in DOMAIN d THEN d[k] ELSE e[k]]

score_row_two_notes(gm, c) ==
    LET amp == ElbowAmpPart(Get(gm, "elbow_amplitude"), c)
        emin == ElbowMinPart(Get(gm, "elbow_min"), c)
        hint == WristHintPart(Get(gm, "wrist_shoulder_range"), c)
        score_elbow == ScoreElbow(amp.score, emin.score, hint.score, c)
        posture == TrunkPosturePart(Get(gm, "trunk_variation"), Get(gm, "trunk_mean"), c)
        stability == TrunkStabilityPart(Get(gm, "trunk_std"), c)
        tmax == TrunkMaxPart(Get(gm, "trunk_max"), c)
        score_trunk == ScoreTrunk(posture.score, stability.score, tmax.score, c)
        scores == [ score_elbow_amp |-> amp.score, score_elbow_min |-> emin.score,
                    score_elbow |-> score_elbow,
                    score_trunk_posture |-> posture.score,
                    score_trunk_stability |-> stability.score,
                    score_trunk_max |-> tmax.score,
                    score_trunk_base |-> ScoreTrunkBase(posture.score, stability.score, c),
                    score_trunk |-> score_trunk ]
    IN  [ score_elbow |-> score_elbow,
          score_trunk |-> score_trunk,
          label_elbow |-> _label(score_elbow),
          label_trunk |-> _label(score_trunk),
          warnings_elbow |-> amp.warnings \o emin.warnings \o hint.warnings,
          warnings_trunk |-> posture.warnings \o stability.warnings \o tmax.warnings,
          details |-> Merge(Merge(Merge(amp.details, emin.details),
                                  Merge(hint.details, posture.details)),
                            Merge(Merge(stability.details, tmax.details), scores)) ]

-----------------------------------------------------------------------------
(* angle_utils.py                                                          *)

\* lines 37-62.  The norm sqrt(x*x + y*y) is 0 exactly for the zero vector.
\* The angle acos(d / (nu * nv)) is given for vectors along the eight compass
\* directions, where it is a multiple of 45 degrees (cross = 0: parallel;
\* dot = 0: perpendicular; |dot| = |cross|: diagonal); the inputs of the model
\* are chosen among such points.
angle_3points(a, b, c) ==
    LET ux == a[1] - b[1]
        uy == a[2] - b[2]
        vx == c[1] - b[1]
        vy == c[2] - b[2]
        d == ux * vx + uy * vy
        x == ux * vy - uy * vx
    IN  IF (ux = 0 /\ uy = 0) \/ (vx = 0 /\ vy = 0)
        THEN None
        ELSE CASE x = 0 /\ d > 0 -> Num(0)
               [] x = 0 /\ d < 0 -> Num(180)
               [] x # 0 /\ d = 0 -> Num(90)
               [] x # 0 /\ d > 0 /\ d * d = x * x -> Num(45)
               [] x # 0 /\ d < 0 /\ d * d = x * x -> Num(135)

-----------------------------------------------------------------------------
(* metrics.py                                                              *)

\* the present (non-None) values of a list, in order
RECURSIVE Present(_)
Present(values) ==
    IF values = <<>> THEN <<>>
    ELSE (IF Head(values) = None THEN <<>> ELSE <<Head(values)>>) \o Present(Tail(values))

RECURSIVE Sum(_)
Sum(values) == IF values = <<>> THEN Num(0) ELSE RAdd(Head(values), Sum(Tail(values)))

\* values[start:end] for 0 <= start <= end <= len(values)
Slice(values, start, end) == SubSeq(values, start + 1, end)

\* MovingAverageAt with a fault: the slice end taken as i + half (last position lost)
MovingAverageAt_EndExclusive(values, half, i) ==
    LET start == IF i - half < 0 THEN 0 ELSE i - half
        end == IF i + half > Len(values) THEN Len(values) ELSE i + half
        chunk == Present(Slice(values, start, end))
    IN  IF chunk = <<>> THEN None ELSE RDiv(Sum(chunk), Num(Len(chunk)))

\* MovingAverageAt with a fault: the sum divided by the span length, absent
\* values counted
MovingAverageAt_DivBySpan(values, half, i) ==
    LET start == IF i - half < 0 THEN 0 ELSE i - half
        end == IF i + half + 1 > Len(values) THEN Len(values) ELSE i + half + 1
        chunk == Present(Slice(values, start, end))
    IN  IF chunk = <<>> THEN None ELSE RDiv(Sum(chunk), Num(end - start))

\* lines 87-95: position i (0-based) of the smoothed list
MovingAverageAt(values, half, i) ==
    LET start == IF i - half < 0 THEN 0 ELSE i - half
        end == IF i + half + 1 > Len(values) THEN Len(values) ELSE i + half + 1
        chunk == Present(Slice(values, start, end))
    IN  IF chunk = <<>> THEN None ELSE RDiv(Sum(chunk), Num(Len(chunk)))

moving_average(values, window) ==
    IF window <= 1
    THEN values
    ELSE [i \in 1..Len(values) |-> MovingAverageAt(values, window \div 2, i - 1)]

\* (dx*dx + dy*dy) ** 0.5, exact on the points of the model (perfect squares)
euclidean_dist(a, b) ==
    LET dx == a[1] - b[1]
        dy == a[2] - b[2]
        sq == dx * dx + dy * dy
    IN  Num(CHOOSE r \in 0..sq : r * r = sq)

RECURSIVE MinOf(_)
MinOf(values) ==
    IF Len(values) = 1 THEN values[1] ELSE RMin(values[1], MinOf(Tail(values)))

RECURSIVE MaxOf(_)
MaxOf(values) ==
    IF Len(values) = 1 THEN values[1] ELSE RMax(values[1], MaxOf(Tail(values)))

\* the triple (mn, mx, amp)
_min_max_amp(values) ==
    IF values = <<>>
    THEN <<None, None, None>>
    ELSE <<MinOf(values), MaxOf(values), RSub(MaxOf(values), MinOf(values))>>

\* lines 141-146: the raw elbow angle and wrist-to-shoulder distance of a frame
RawElbow(f) ==
    IF Get(f, "shoulder") = None \/ Get(f, "elbow") = None \/ Get(f, "wrist") = None
    THEN None
    ELSE angle_3points(f["shoulder"], f["elbow"], f["wrist"])

RawWristShoulder(f) ==
    IF Get(f, "shoulder") = None \/ Get(f, "elbow") = None \/ Get(f, "wrist") = None
    THEN None
    ELSE euclidean_dist(f["wrist"], f["shoulder"])

\* lines 149-152: the raw trunk angle of a frame
RawTrunk(f) ==
    IF Get(f, "shoulder") = None \/ Get(f, "hip") = None \/ Get(f, "knee") = None
    THEN None
    ELSE angle_3points(f["shoulder"], f["hip"], f["knee"])

compute_series_from_landmarks(fs, window) ==
    [ elbow_angle_deg |->
          moving_average([i \in 1..Len(fs) |-> RawElbow(fs[i])], window),
      trunk_angle_deg |->
          moving_average([i \in 1..Len(fs) |-> RawTrunk(fs[i])], window),
      wrist_to_shoulder_dist |->
          moving_average([i \in 1..Len(fs) |-> RawWristShoulder(fs[i])], window) ]

compute_global_metrics(sr) ==
    LET e == _min_max_amp(Present(sr.elbow_angle_deg))
        t == _min_max_amp(Present(sr.trunk_angle_deg))
        w == _min_max_amp(Present(sr.wrist_to_shoulder_dist))
    IN  [ elbow_min |-> e[1], elbow_max |-> e[2], elbow_amplitude |-> e[3],
          trunk_min |-> t[1], trunk_max |-> t[2], trunk_variation |-> t[3],
          wrist_shoulder_min_dist |-> w[1], wrist_shoulder_max_dist |-> w[2],
          wrist_shoulder_range |-> w[3] ]

\* vals[i] with Python's 0-based index
At(vals, i) == vals[i + 1]

\* lines 225-230: whether index i is appended to minima
QualifyingMinimum(vals, i, prom) ==
    /\ At(vals, i) # None /\ At(vals, i - 1) # None /\ At(vals, i + 1) # None
    /\ RLt(At(vals, i), At(vals, i - 1)) /\ RLt(At(vals, i), At(vals, i + 1))
    /\ LET neighbor_avg == RDiv(RAdd(At(vals, i - 1), At(vals, i + 1)), Num(2))
       IN  RLe(prom, RSub(neighbor_avg, At(vals, i)))

\* lines 223-231: the loop over range(i, len(vals) - 1)
RECURSIVE MinimaFrom(_, _, _)
MinimaFrom(vals, i, prom) ==
    IF i >= Len(vals) - 1
    THEN <<>>
    ELSE (IF QualifyingMinimum(vals, i, prom) THEN <<i>> ELSE <<>>)
         \o MinimaFrom(vals, i + 1, prom)

Minima(vals, prom) == MinimaFrom(vals, 1, prom)

\* KeepSegment with a fault: the length test off by one
KeepSegment_OffByOne(start, end, min_frames) == (end - start) >= min_frames - 1

\* lines 241-242: whether the segment [start, end] is appended to reps
KeepSegment(start, end, min_frames) == (end - start) >= min_frames

\* SegmentsFrom with a fault: the end stored as an exclusive bound
RECURSIVE SegmentsFrom_EndExclusive(_, _, _)
SegmentsFrom_EndExclusive(minima, k, min_frames) ==
    IF k >= Len(minima) - 1
    THEN <<>>
    ELSE (IF (At(minima, k + 1) - At(minima, k)) >= min_frames
          THEN <<[start |-> At(minima, k), end |-> At(minima, k + 1) + 1]>>
          ELSE <<>>)
         \o SegmentsFrom_EndExclusive(minima, k + 1, min_frames)

\* lines 237-242: the loop over range(k, len(minima) - 1)
RECURSIVE SegmentsFrom(_, _, _)
SegmentsFrom(minima, k, min_frames) ==
    IF k >= Len(minima) - 1
    THEN <<>>
    ELSE (IF KeepSegment(At(minima, k), At(minima, k + 1), min_frames)
          THEN <<[start |-> At(minima, k), end |-> At(minima, k + 1)]>>
          ELSE <<>>)
         \o SegmentsFrom(minima, k + 1, min_frames)

\* detect_reps_by_wrist_shoulder_distance with a fault: three minima required
detect_reps_NeedsThreeMinima(vals, min_frames, prom) ==
    LET minima == Minima(vals, prom)
    IN  IF Len(minima) < 3 THEN <<>> ELSE SegmentsFrom(minima, 0, min_frames)

detect_reps_by_wrist_shoulder_distance(vals, min_frames, prom) ==
    LET minima == Minima(vals, prom)
    IN  IF Len(minima) < 2 THEN <<>> ELSE SegmentsFrom(minima, 0, min_frames)

-----------------------------------------------------------------------------
(* The inputs the model draws                                              *)

\* the statistics score_row_two_notes reads from global_metrics
ConsumedKeys ==
    {"elbow_min", "elbow_amplitude", "trunk_variation", "trunk_mean", "trunk_std",
     "trunk_max", "wrist_shoulder_range"}

\* per statistic: absent, inside the good band, in the fall-off, beyond it
StatValues(k) ==
    CASE k = "elbow_amplitude" -> {None, Num(90), Num(110), Num(150)}
      [] k = "elbow_min" -> {None, Num(50), R(5967, 100), Num(70)}
      [] k = "wrist_shoulder_range" -> {None, R(10, 100), R(20, 100), R(40, 100)}
      [] k = "trunk_variation" -> {None, Num(45), Num(55), Num(80)}
      [] k = "trunk_mean" -> {None, Num(70), Num(95), Num(120)}
      [] k = "trunk_std" -> {None, Num(18), Num(25), Num(40)}
      [] k = "trunk_max" -> {None, R(11673, 100), Num(120), Num(130)}

GlobalMetricsInputs ==
    [ elbow_min : StatValues("elbow_min"),
      elbow_amplitude : StatValues("elbow_amplitude"),
      trunk_variation : StatValues("trunk_variation"),
      trunk_mean : StatValues("trunk_mean"),
      trunk_std : StatValues("trunk_std"),
      trunk_max : StatValues("trunk_max"),
      wrist_shoulder_range : StatValues("wrist_shoulder_range") ]

\* configurations with positive fall-offs: the defaults, and the defaults with
\* blend weights below 0, above 1 and not summing to 1, or other fall-offs
Cfgs ==
    { DefaultCfg,
      [DefaultCfg EXCEPT !.elbow_w_amp = Num(2), !.elbow_w_min = Num(2)],
      [DefaultCfg EXCEPT !.elbow_w_amp = Num(-1)],
      [DefaultCfg EXCEPT !.wrist_hint_weight = R(1, 2)],
      [DefaultCfg EXCEPT !.wrist_hint_weight = R(3, 2)],
      [DefaultCfg EXCEPT !.wrist_hint_weight = Num(-1)],
      [DefaultCfg EXCEPT !.trunk_w_max = R(3, 2)],
      [DefaultCfg EXCEPT !.trunk_w_max = R(-1, 2)],
      [DefaultCfg EXCEPT !.trunk_w_posture = Num(2), !.trunk_w_stability = Num(1)],
      [DefaultCfg EXCEPT !.trunk_w_posture = Num(-1)],
      [DefaultCfg EXCEPT !.trunk_w_posture = R(1, 2), !.trunk_w_stability = R(1, 2),
                         !.trunk_w_max = Num(2)],
      [DefaultCfg EXCEPT !.elbow_amp_falloff = Num(50), !.elbow_min_falloff = Num(1),
                         !.trunk_var_falloff = Num(10), !.trunk_std_falloff = Num(40),
                         !.trunk_max_falloff = Num(5)] }

\* landmark positions on the integer grid
PointShoulder == {<<0, 0>>, <<0, 1>>}
PointElbow == {<<0, 1>>}
PointWrist == {<<0, 2>>}
PointHip == {<<1, 1>>}
PointKnee == {<<1, 2>>}

\* a LandmarkFrame: each joint a point or None (the hip is always detected)
FrameChoices ==
    [ shoulder : PointShoulder \cup {None}, elbow : PointElbow \cup {None},
      wrist : PointWrist \cup {None}, hip : PointHip,
      knee : PointKnee \cup {None} ]

MaxFrames == 2
MaxWindow == 3

FrameSequences == UNION {[1..n -> FrameChoices] : n \in 0..MaxFrames}

\* a distance series: each position a distance or None
DistValues == {None, Num(0), Num(1), Num(2)}
MaxLen == 7
DistSeries == UNION {[1..n -> DistValues] : n \in 0..MaxLen}
MinFramesChoices == {0, 2, 3}
ProminenceChoices == {Num(1), R(3, 2)}

-----------------------------------------------------------------------------
(* The calls                                                               *)

\* scoring.py: result = score_row_two_notes(global_metrics, **cfg)
ScoreRowTwoNotes ==
    /\ pc = "score"
    /\ result' = score_row_two_notes(global_metrics, cfg)
    /\ pc' = "scored"
    /\ UNCHANGED <<global_metrics, cfg, frames, smooth_window, series,
                   wrist_shoulder_dist, min_frames_per_rep, prominence, reps,
                   scoreFnVars, smoothVars>>

\* metrics.py: series = compute_series_from_landmarks(frames, smooth_window=...)
ComputeSeries ==
    /\ pc = "series"
    /\ series' = compute_series_from_landmarks(frames, smooth_window)
    /\ pc' = "metrics"
    /\ UNCHANGED <<global_metrics, cfg, result, frames, smooth_window,
                   wrist_shoulder_dist, min_frames_per_rep, prominence, reps,
                   scoreFnVars, smoothVars>>

\* metrics.py: global_metrics = compute_global_metrics(series)
ComputeGlobalMetrics ==
    /\ pc = "metrics"
    /\ global_metrics' = compute_global_metrics(series)
    /\ pc' = "score"
    /\ UNCHANGED <<cfg, result, frames, smooth_window, series,
                   wrist_shoulder_dist, min_frames_per_rep, prominence, reps,
                   scoreFnVars, smoothVars>>

\* metrics.py: reps = detect_reps_by_wrist_shoulder_distance(dist, ...)
DetectReps ==
    /\ pc = "detect"
    /\ reps' = detect_reps_by_wrist_shoulder_distance(wrist_shoulder_dist,
                                                      min_frames_per_rep, prominence)
    /\ pc' = "detected"
    /\ UNCHANGED <<global_metrics, cfg, result, frames, smooth_window, series,
                   wrist_shoulder_dist, min_frames_per_rep, prominence,
                   scoreFnVars, smoothVars>>

\* what a specification leaves unused
IdleScoring == global_metrics = None /\ cfg = DefaultCfg /\ result = None
IdleSeries == frames = <<>> /\ smooth_window = 1 /\ series = None
IdleReps ==
    /\ wrist_shoulder_dist = <<>> /\ min_frames_per_rep = 0
    /\ prominence = Num(0) /\ reps = <<>>
IdleScoreFn == fn_value = None /\ fn_band = None /\ fn_scores = None
IdleSmooth == ma_values = <<>> /\ ma_window = 1 /\ ma_out = <<>>

\* score_row_two_notes on every statistics mapping and configuration drawn
Init ==
    /\ pc = "score"
    /\ global_metrics \in GlobalMetricsInputs
    /\ cfg \in Cfgs
    /\ result = None
    /\ IdleSeries /\ IdleReps /\ IdleScoreFn /\ IdleSmooth

Next == ScoreRowTwoNotes

Spec == Init /\ [][Next]_vars

\* score_row_two_notes on a coarser grid of statistics (absent, and two values
\* per statistic; the wrist hint keeps its four), for the claims that compare
\* each call with further calls
GlobalMetricsCompared ==
    [ elbow_min : {None, Num(50), R(5967, 100)},
      elbow_amplitude : {None, Num(90), Num(110)},
      trunk_variation : {None, Num(45), Num(80)},
      trunk_mean : {None, Num(70), Num(95)},
      trunk_std : {None, Num(18), Num(40)},
      trunk_max : {None, R(11673, 100), Num(130)},
      wrist_shoulder_range : StatValues("wrist_shoulder_range") ]

InitCompared ==
    /\ pc = "score"
    /\ global_metrics \in GlobalMetricsCompared
    /\ cfg \in Cfgs
    /\ result = None
    /\ IdleSeries /\ IdleReps /\ IdleScoreFn /\ IdleSmooth

NextCompared == ScoreRowTwoNotes

SpecCompared == InitCompared /\ [][NextCompared]_vars

\* bands good_min <= good_max with falloff > 0: the defaults of the amplitude,
\* of elbow_min and of the wrist range, a band of one point, bands at and below 0
Bands ==
    { [good_min |-> Num(100), good_max |-> Num(120), falloff |-> Num(25)],
      [good_min |-> R(5567, 100), good_max |-> R(6367, 100), falloff |-> Num(8)],
      [good_min |-> R(16, 100), good_max |-> R(22, 100), falloff |-> R(8, 100)],
      [good_min |-> Num(1), good_max |-> Num(1), falloff |-> Num(1)],
      [good_min |-> Num(0), good_max |-> Num(2), falloff |-> R(1, 2)],
      [good_min |-> Num(-2), good_max |-> Num(-1), falloff |-> Num(3)] }

\* values at 0, 1/4, ..., MaxSteps/4 of the falloff below and above the band,
\* and the middle of the band
MaxSteps == 6

ValuesAround(b) ==
    {RSub(b.good_min, RMul(R(k, 4), b.falloff)) : k \in 0..MaxSteps}
    \cup {RAdd(b.good_max, RMul(R(k, 4), b.falloff)) : k \in 0..MaxSteps}
    \cup {RDiv(RAdd(b.good_min, b.good_max), Num(2))}

\* scoring.py: _score_from_range(value, good_min, good_max, falloff)
ScoreFromRange ==
    /\ pc = "from_range"
    /\ fn_scores' = [fn_scores EXCEPT !.from_range =
                        _score_from_range(fn_value, fn_band.good_min, fn_band.good_max,
                                          fn_band.falloff)]
    /\ pc' = "from_max"
    /\ UNCHANGED <<global_metrics, cfg, result, frames, smooth_window, series,
                   wrist_shoulder_dist, min_frames_per_rep, prominence, reps,
                   fn_value, fn_band, smoothVars>>

\* scoring.py: _score_from_max(value, good_max, falloff)
ScoreFromMax ==
    /\ pc = "from_max"
    /\ fn_scores' = [fn_scores EXCEPT !.from_max =
                        _score_from_max(fn_value, fn_band.good_max, fn_band.falloff)]
    /\ pc' = "from_done"
    /\ UNCHANGED <<global_metrics, cfg, result, frames, smooth_window, series,
                   wrist_shoulder_dist, min_frames_per_rep, prominence, reps,
                   fn_value, fn_band, smoothVars>>

\* the two score functions on every band and value drawn
InitScoreFn ==
    /\ pc = "from_range"
    /\ fn_band \in Bands
    /\ fn_value \in ValuesAround(fn_band)
    /\ fn_scores = [from_range |-> None, from_max |-> None]
    /\ IdleScoring /\ IdleSeries /\ IdleReps /\ IdleSmooth

NextScoreFn == ScoreFromRange \/ ScoreFromMax

SpecScoreFn == InitScoreFn /\ [][NextScoreFn]_vars

\* lists of up to MaxValues entries, each a value or None, and windows from -1
\* (window <= 1: no smoothing) to MaxSmoothWindow, odd and even
SmoothValues == {None, Num(0), Num(1), Num(3)}
MaxValues == 5
MaxSmoothWindow == 5
SmoothInputs == UNION {[1..n -> SmoothValues] : n \in 0..MaxValues}

\* metrics.py: out = moving_average(values, window)
MovingAverage ==
    /\ pc = "smooth"
    /\ ma_out' = moving_average(ma_values, ma_window)
    /\ pc' = "smoothed"
    /\ UNCHANGED <<global_metrics, cfg, result, frames, smooth_window, series,
                   wrist_shoulder_dist, min_frames_per_rep, prominence, reps,
                   scoreFnVars, ma_values, ma_window>>

\* moving_average on every list and window drawn
InitSmooth ==
    /\ pc = "smooth"
    /\ ma_values \in SmoothInputs
    /\ ma_window \in -1..MaxSmoothWindow
    /\ ma_out = <<>>
    /\ IdleScoring /\ IdleSeries /\ IdleReps /\ IdleScoreFn

NextSmooth == MovingAverage

SpecSmooth == InitSmooth /\ [][NextSmooth]_vars

\* the pipeline: frames -> series -> global metrics -> scores (default cfg)
InitPipeline ==
    /\ pc = "series"
    /\ frames \in FrameSequences
    /\ smooth_window \in 0..MaxWindow
    /\ series = None
    /\ IdleScoring /\ IdleReps /\ IdleScoreFn /\ IdleSmooth

NextPipeline == ComputeSeries \/ ComputeGlobalMetrics \/ ScoreRowTwoNotes

SpecPipeline == InitPipeline /\ [][NextPipeline]_vars

\* repetition detection on every distance series drawn
InitReps ==
    /\ pc = "detect"
    /\ wrist_shoulder_dist \in DistSeries
    /\ min_frames_per_rep \in MinFramesChoices
    /\ prominence \in ProminenceChoices
    /\ reps = <<>>
    /\ IdleScoring /\ IdleSeries /\ IdleScoreFn /\ IdleSmooth

NextReps == DetectReps

SpecReps == InitReps /\ [][NextReps]_vars

-----------------------------------------------------------------------------
(* Claims about score_row_two_notes (specifications Spec, SpecCompared)    *)

Scored == pc = "scored"

InRange(x, lo, hi) == RLe(Num(lo), x) /\ RLe(x, Num(hi))

Absent(k) == Get(global_metrics, k) = None

\* C1: for every statistics mapping (each statistic absent or present) and every
\* configuration with positive fall-offs, whatever the blend weights, the
\* returned score_elbow and score_trunk both lie within [0, 100].
C1_ScoresWithinBounds ==
    Scored => InRange(result.score_elbow, 0, 100) /\ InRange(result.score_trunk, 0, 100)

\* the weighted sums before clamping leave [0, 100] on both sides here
C1_Witness ==
    /\ Scored
    /\ cfg.wrist_hint_weight = R(3, 2)
    /\ Absent("elbow_amplitude") /\ global_metrics.wrist_shoulder_range = R(20, 100)
    /\ result.score_elbow = Num(100)
    /\ result.score_trunk = Num(0)

\* the tiers of the labels, worst to best
Rank(label) == CASE label = "ruim" -> 0 [] label = "medio" -> 1 [] label = "ok" -> 2

ThreeTier(score, label) ==
    /\ RLe(Num(85), score) <=> label = "ok"
    /\ (RLe(Num(55), score) /\ RLt(score, Num(85))) <=> label = "medio"
    /\ RLt(score, Num(55)) <=> label = "ruim"

\* scores at, just below and just above the two thresholds, and the extremes
SampleScores ==
    {Num(0), R(109, 2), Num(55), R(111, 2), Num(70), R(169, 2), Num(85), R(171, 2), Num(100)}

\* C2: the label is a three-tier function of the score alone (>= 85 "ok",
\* 55 <= score < 85 "medio", < 55 "ruim"), monotonic in the score, and
\* label_elbow / label_trunk are this function of score_elbow / score_trunk.
C2_LabelThreeTierMonotonic ==
    Scored =>
      /\ ThreeTier(result.score_elbow, result.label_elbow)
      /\ ThreeTier(result.score_trunk, result.label_trunk)
      /\ RLe(result.score_elbow, result.score_trunk)
            => Rank(result.label_elbow) <= Rank(result.label_trunk)
      /\ RLe(result.score_trunk, result.score_elbow)
            => Rank(result.label_trunk) <= Rank(result.label_elbow)
      /\ \A s \in SampleScores :
            /\ ThreeTier(s, _label(s))
            /\ RLe(result.score_elbow, s) => Rank(result.label_elbow) <= Rank(_label(s))
            /\ RLe(s, result.score_elbow) => Rank(_label(s)) <= Rank(result.label_elbow)

C2_Witness ==
    /\ Scored
    /\ result.label_elbow = "medio" /\ result.label_trunk = "ok"
    /\ result.score_trunk = Num(85)

ElbowMinInBand ==
    /\ ~Absent("elbow_min")
    /\ RLe(RSub(cfg.elbow_min_target, cfg.elbow_min_tol), global_metrics.elbow_min)
    /\ RLe(global_metrics.elbow_min, RAdd(cfg.elbow_min_target, cfg.elbow_min_tol))

\* C3: with the default configuration (hint weight 0), elbow_amplitude = 90 and
\* elbow_min inside its tolerance band give amplitude sub-score 60, elbow_min
\* sub-score 100, score_elbow = 78 and label "medio"; in general, with both
\* statistics present and hint weight 0,
\* score_elbow = clamp(elbow_w_amp * score_elbow_amp + elbow_w_min * score_elbow_min).
C3_ElbowComposite ==
    Scored =>
      /\ (cfg = DefaultCfg /\ global_metrics.elbow_amplitude = Num(90) /\ ElbowMinInBand)
            => /\ result.details.score_elbow_amp = Num(60)
               /\ result.details.score_elbow_min = Num(100)
               /\ result.score_elbow = Num(78)
               /\ result.label_elbow = "medio"
      /\ (cfg.wrist_hint_weight = Num(0) /\ ~Absent("elbow_amplitude") /\ ~Absent("elbow_min"))
            => result.score_elbow =
                  RMax(Num(0), RMin(Num(100),
                       RAdd(RMul(cfg.elbow_w_amp, result.details.score_elbow_amp),
                            RMul(cfg.elbow_w_min, result.details.score_elbow_min))))

C3_Witness ==
    /\ Scored /\ cfg = DefaultCfg
    /\ global_metrics.elbow_amplitude = Num(90) /\ ElbowMinInBand
    /\ result.score_elbow = Num(78)

\* C4: with the default configuration, trunk_variation = 45, trunk_std = 18 and
\* trunk_max = trunk_max_target + trunk_max_tol give the three trunk sub-scores
\* 100, score_trunk = 100, label "ok" and no trunk warning; in general, when the
\* three sub-scores are 100 and trunk_w_posture + trunk_w_stability = 1,
\* score_trunk = 100 whatever trunk_w_max is.
C4_TrunkComposite ==
    Scored =>
      /\ ( /\ cfg = DefaultCfg
           /\ global_metrics.trunk_variation = Num(45)
           /\ global_metrics.trunk_std = Num(18)
           /\ global_metrics.trunk_max = R(11673, 100) )
            => /\ result.details.score_trunk_posture = Num(100)
               /\ result.details.score_trunk_stability = Num(100)
               /\ result.details.score_trunk_max = Num(100)
               /\ result.score_trunk = Num(100)
               /\ result.label_trunk = "ok"
               /\ result.warnings_trunk = <<>>
      /\ ( /\ result.details.score_trunk_posture = Num(100)
           /\ result.details.score_trunk_stability = Num(100)
           /\ result.details.score_trunk_max = Num(100)
           /\ RAdd(cfg.trunk_w_posture, cfg.trunk_w_stability) = Num(1) )
            => result.score_trunk = Num(100)

\* the boundary scenario, and the general case with trunk_w_max above 0.7
C4_Witness ==
    /\ Scored
    /\ global_metrics.trunk_variation = Num(45)
    /\ global_metrics.trunk_std = Num(18)
    /\ global_metrics.trunk_max = R(11673, 100)
    /\ cfg.trunk_w_max = Num(2)
    /\ RAdd(cfg.trunk_w_posture, cfg.trunk_w_stability) = Num(1)
    /\ result.score_trunk = Num(100) /\ result.warnings_trunk = <<>>

\* every 'could not measure' message and every 'measured and out of range' message
MissingMessages ==
    {MsgElbowAmpMissing, MsgElbowMinMissing, MsgTrunkPostureMissing, MsgTrunkStdMissing,
     MsgTrunkMaxMissing}

MeasuredMessages ==
    {MsgElbowAmpShort, MsgElbowAmpHigh, MsgElbowMinLow, MsgElbowMinHigh, MsgWristLow,
     MsgWristHigh, MsgTrunkVarStrong, MsgTrunkVarMild, MsgTrunkMeanLow, MsgTrunkMeanHigh,
     MsgTrunkStdStrong, MsgTrunkStdMild, MsgTrunkMaxStrong, MsgTrunkMaxMild}

Range(seq) == {seq[i] : i \in 1..Len(seq)}

\* the blend of the elbow base with a wrist hint score h
ElbowBlend(h) ==
    LET base == RAdd(RMul(cfg.elbow_w_amp, result.details.score_elbow_amp),
                     RMul(cfg.elbow_w_min, result.details.score_elbow_min))
    IN  RMax(Num(0), RMin(Num(100),
             RAdd(RMul(RSub(Num(1), cfg.wrist_hint_weight), base),
                  RMul(cfg.wrist_hint_weight, h))))

\* the stand-in of each sub-criterion whose statistic is absent is one of `allowed`
\* (the wrist hint's is seen through the blend, when its weight is positive)
StandInsAmong(amp, emin, hint, posture, std, tmax) ==
    /\ Absent("elbow_amplitude") => result.details.score_elbow_amp \in amp
    /\ Absent("elbow_min") => result.details.score_elbow_min \in emin
    /\ (Absent("wrist_shoulder_range") /\ RLt(Num(0), cfg.wrist_hint_weight))
          => \E h \in hint : result.score_elbow = ElbowBlend(h)
    /\ (Absent("trunk_variation") /\ Absent("trunk_mean"))
          => result.details.score_trunk_posture \in posture
    /\ Absent("trunk_std") => result.details.score_trunk_stability \in std
    /\ Absent("trunk_max") => result.details.score_trunk_max \in tmax

ZeroOrHundred == {Num(0), Num(100)}

\* C6 as claimed: every stand-in sub-score is exactly 0 or exactly 100.
C6_StandInZeroOrHundred ==
    Scored => StandInsAmong(ZeroOrHundred, ZeroOrHundred, ZeroOrHundred, ZeroOrHundred,
                            ZeroOrHundred, ZeroOrHundred)

\* C6 (amended): every sub-criterion whose statistic is absent receives a fixed
\* stand-in sub-score: 0 for the elbow amplitude, 70 for elbow_min, and 100 for
\* the wrist hint, the trunk posture (trunk_variation and trunk_mean both
\* absent), trunk_std and trunk_max; no other stand-in value is used.
C6_StandInValues ==
    Scored => StandInsAmong({Num(0)}, {Num(70)}, {Num(100)}, {Num(100)}, {Num(100)},
                            {Num(100)})

C6_Witness ==
    /\ Scored
    /\ Absent("elbow_min") /\ result.details.score_elbow_min = Num(70)
    /\ Absent("elbow_amplitude") /\ result.details.score_elbow_amp = Num(0)
    /\ Absent("wrist_shoulder_range") /\ cfg.wrist_hint_weight = R(1, 2)
    /\ Absent("trunk_std") /\ result.details.score_trunk_stability = Num(100)

\* the messages the amplitude and elbow_min sub-criteria can append
ElbowAmpMinMessages ==
    {MsgElbowAmpMissing, MsgElbowAmpShort, MsgElbowAmpHigh, MsgElbowMinMissing,
     MsgElbowMinLow, MsgElbowMinHigh}

\* the sub-criteria other than the wrist hint announce an absent statistic, and
\* only an absent one
MissingAnnouncedExceptWrist ==
    /\ Absent("elbow_amplitude") <=> MsgElbowAmpMissing \in Range(result.warnings_elbow)
    /\ Absent("elbow_min") <=> MsgElbowMinMissing \in Range(result.warnings_elbow)
    /\ (Absent("trunk_variation") /\ Absent("trunk_mean"))
          <=> MsgTrunkPostureMissing \in Range(result.warnings_trunk)
    /\ Absent("trunk_std") <=> MsgTrunkStdMissing \in Range(result.warnings_trunk)
    /\ Absent("trunk_max") <=> MsgTrunkMaxMissing \in Range(result.warnings_trunk)
    /\ MissingMessages \cap MeasuredMessages = {}

\* the wrist hint's own 'could not measure' message: a message of warnings_elbow
\* that is neither of another sub-criterion nor a 'measured' message
WristMissingAnnounced ==
    \E m \in Range(result.warnings_elbow) : m \notin ElbowAmpMinMessages \cup MeasuredMessages

\* C7 as claimed: for every set of absent statistics a result is returned, each
\* absent statistic a sub-criterion consumes is announced in the matching
\* warnings list by that sub-criterion's own 'could not measure' message, which
\* differs from every 'measured and out of range' message, and a present
\* statistic is never announced as not measurable.
C7_AbsentAnnounced ==
    Scored =>
      /\ DOMAIN result = {"score_elbow", "score_trunk", "label_elbow", "label_trunk",
                          "warnings_elbow", "warnings_trunk", "details"}
      /\ MissingAnnouncedExceptWrist
      /\ Absent("wrist_shoulder_range") <=> WristMissingAnnounced

\* what the code does for every input but an absent wrist_shoulder_range
C7_HoldsExceptWrist == Scored => MissingAnnouncedExceptWrist

\* the sub-criterion of a message of warnings_elbow: 1 amplitude, 2 terminal
\* angle (elbow_min), 3 wrist proxy; 0 for any other text
ElbowStage(m) ==
    CASE m \in {MsgElbowAmpMissing, MsgElbowAmpShort, MsgElbowAmpHigh} -> 1
      [] m \in {MsgElbowMinMissing, MsgElbowMinLow, MsgElbowMinHigh} -> 2
      [] m \in {MsgWristLow, MsgWristHigh} -> 3
      [] OTHER -> 0

\* the sub-criterion of a message of warnings_trunk: 1 variation/posture,
\* 2 stability (std), 3 peak angle (trunk_max); 0 for any other text
TrunkStage(m) ==
    CASE m \in {MsgTrunkVarStrong, MsgTrunkVarMild, MsgTrunkPostureMissing,
                MsgTrunkMeanLow, MsgTrunkMeanHigh} -> 1
      [] m \in {MsgTrunkStdMissing, MsgTrunkStdStrong, MsgTrunkStdMild} -> 2
      [] m \in {MsgTrunkMaxMissing, MsgTrunkMaxStrong, MsgTrunkMaxMild} -> 3
      [] OTHER -> 0

\* C11: warnings_elbow lists at most one message per sub-criterion in the fixed
\* order amplitude, elbow_min, wrist proxy, and warnings_trunk at most one per
\* sub-criterion in the order variation/posture, stability, peak angle, whatever
\* the metric values: along each list the sub-criterion strictly increases, so
\* the list is the concatenation in evaluation order, not a sorted one.
C11_WarningsInFixedOrder ==
    Scored =>
      /\ \A i \in 1..Len(result.warnings_elbow) : ElbowStage(result.warnings_elbow[i]) # 0
      /\ \A i \in 1..Len(result.warnings_trunk) : TrunkStage(result.warnings_trunk[i]) # 0
      /\ \A i, j \in 1..Len(result.warnings_elbow) :
            i < j => ElbowStage(result.warnings_elbow[i]) < ElbowStage(result.warnings_elbow[j])
      /\ \A i, j \in 1..Len(result.warnings_trunk) :
            i < j => TrunkStage(result.warnings_trunk[i]) < TrunkStage(result.warnings_trunk[j])

\* three messages in each list, in evaluation order where the alphabetical order
\* differs ("Nao ..." before "A ..."; "Tronco muito ..." before "Tronco indo ...")
C11_Witness ==
    /\ Scored
    /\ result.warnings_elbow = <<MsgElbowAmpMissing, MsgElbowMinLow, MsgWristLow>>
    /\ result.warnings_trunk = <<MsgTrunkMeanLow, MsgTrunkStdStrong, MsgTrunkMaxStrong>>

\* the statistics and the keyword arguments of each note
ElbowStatistics == {"elbow_min", "elbow_amplitude", "wrist_shoulder_range"}
TrunkStatistics == {"trunk_variation", "trunk_mean", "trunk_std", "trunk_max"}

ElbowConfiguration ==
    {"elbow_amp_good_min", "elbow_amp_good_max", "elbow_amp_falloff", "elbow_min_target",
     "elbow_min_tol", "elbow_min_falloff", "elbow_w_amp", "elbow_w_min",
     "wrist_shoulder_range_good_min", "wrist_shoulder_range_good_max",
     "wrist_shoulder_range_falloff", "wrist_hint_weight"}

TrunkConfiguration == (DOMAIN DefaultCfg) \ ElbowConfiguration

\* the call that keeps the statistics `stats` and the keyword arguments `keys` of
\* the state's call, with every other statistic absent and every other keyword
\* argument at its default
CallKeeping(stats, keys) ==
    score_row_two_notes(
        [k \in DOMAIN global_metrics |-> IF k \in stats THEN global_metrics[k] ELSE None],
        [k \in DOMAIN cfg |-> IF k \in keys THEN cfg[k] ELSE DefaultCfg[k]])

\* C12: the two notes are independent.  The elbow outputs of a call equal those
\* of the call that keeps only its elbow statistics and elbow configuration, and
\* the trunk outputs equal those of the call that keeps only its trunk statistics
\* and trunk configuration; hence two calls that differ only in the trunk inputs
\* return identical score_elbow, label_elbow and warnings_elbow, and two calls
\* that differ only in the elbow inputs return identical score_trunk,
\* label_trunk and warnings_trunk.
C12_NotesIndependent ==
    Scored =>
      /\ \A e \in {CallKeeping(ElbowStatistics, ElbowConfiguration)} :
            /\ result.score_elbow = e.score_elbow
            /\ result.label_elbow = e.label_elbow
            /\ result.warnings_elbow = e.warnings_elbow
      /\ \A t \in {CallKeeping(TrunkStatistics, TrunkConfiguration)} :
            /\ result.score_trunk = t.score_trunk
            /\ result.label_trunk = t.label_trunk
            /\ result.warnings_trunk = t.warnings_trunk

\* a call whose trunk inputs all differ from the stand-ins while the elbow note
\* is "ok" and the trunk note is not
C12_Witness ==
    /\ Scored
    /\ \A k \in ConsumedKeys : ~Absent(k)
    /\ \E k \in TrunkConfiguration : cfg[k] # DefaultCfg[k]
    /\ global_metrics.trunk_variation = Num(80)
    /\ result.label_elbow = "ok" /\ result.label_trunk = "ruim"
    /\ result.warnings_elbow = <<>> /\ result.warnings_trunk # <<>>

\* the state's call with wrist_shoulder_range absent
CallWithoutWristRange ==
    score_row_two_notes([global_metrics EXCEPT !.wrist_shoulder_range = None], cfg)

\* the hint sub-score of the state's call: 100 when the range is absent
HintScore ==
    IF Absent("wrist_shoulder_range")
    THEN Num(100)
    ELSE _score_from_range(global_metrics.wrist_shoulder_range,
                           cfg.wrist_shoulder_range_good_min,
                           cfg.wrist_shoulder_range_good_max,
                           cfg.wrist_shoulder_range_falloff)

\* C13: with wrist_hint_weight <= 0 (the default is 0) the wrist-to-shoulder hint
\* is advisory: a call returns what the same call with wrist_shoulder_range
\* absent returns, except for warnings_elbow and the details entry
\* wrist_shoulder_range, so calls that differ only in wrist_shoulder_range
\* return the same score_elbow and label_elbow; with a weight w > 0,
\* score_elbow = clamp((1 - w) * base + w * hint, 0, 100).
C13_WristHintAdvisory ==
    Scored =>
      /\ RLe(cfg.wrist_hint_weight, Num(0)) =>
            \A r \in {CallWithoutWristRange} :
              /\ result.score_elbow = r.score_elbow
              /\ result.label_elbow = r.label_elbow
              /\ result.score_trunk = r.score_trunk
              /\ result.label_trunk = r.label_trunk
              /\ result.warnings_trunk = r.warnings_trunk
              /\ (DOMAIN result.details) \ {"wrist_shoulder_range"} = DOMAIN r.details
              /\ \A k \in DOMAIN r.details : result.details[k] = r.details[k]
      /\ RLt(Num(0), cfg.wrist_hint_weight) => result.score_elbow = ElbowBlend(HintScore)

\* weight 0 and a range below its band: the hint warns and the score is that of
\* the amplitude and elbow_min alone
C13_Witness ==
    /\ Scored
    /\ cfg = DefaultCfg
    /\ global_metrics.wrist_shoulder_range = R(10, 100)
    /\ global_metrics.elbow_amplitude = Num(90)
    /\ global_metrics.elbow_min = R(5967, 100)
    /\ result.warnings_elbow = <<MsgElbowAmpShort, MsgWristLow>>
    /\ result.score_elbow = Num(78)

\* trunk_w_max brought into [0, 0.7]
PeakWeight ==
    IF RLt(cfg.trunk_w_max, Num(0)) THEN Num(0)
    ELSE IF RLt(R(7, 10), cfg.trunk_w_max) THEN R(7, 10)
    ELSE cfg.trunk_w_max

\* C17: in the trunk composite the peak-angle sub-score weighs w = trunk_w_max
\* clamped into [0, 0.7] and the posture+stability base weighs 1 - w >= 0.3,
\* for every trunk_w_max (above 0.7, above 1 or negative included):
\* score_trunk = clamp((1 - w) * (trunk_w_posture * posture
\*                               + trunk_w_stability * stability) + w * peak, 0, 100),
\* so the base always keeps a positive weight in the unclamped score.
C17_PeakWeightClamped ==
    Scored =>
      LET w == PeakWeight
          base == RAdd(RMul(cfg.trunk_w_posture, result.details.score_trunk_posture),
                       RMul(cfg.trunk_w_stability, result.details.score_trunk_stability))
          unclamped == RAdd(RMul(RSub(Num(1), w), base),
                            RMul(w, result.details.score_trunk_max))
      IN  /\ RLe(Num(0), w) /\ RLe(w, R(7, 10))
          /\ RLe(R(3, 10), RSub(Num(1), w))
          /\ result.details.score_trunk_base = base
          /\ result.score_trunk = RMax(Num(0), RMin(Num(100), unclamped))

\* trunk_w_max = 1.5 acts as 0.7: base 100 and peak 0 give 30, not 0
C17_Witness ==
    /\ Scored
    /\ cfg.trunk_w_max = R(3, 2)
    /\ result.details.score_trunk_base = Num(100)
    /\ result.details.score_trunk_max = Num(0)
    /\ result.score_trunk = Num(30)

-----------------------------------------------------------------------------
(* Claims about the score functions (specification SpecScoreFn)            *)

FnScored == pc = "from_done"

\* how far v lies outside the band b (0 inside)
DistanceFrom(b, v) ==
    IF RLt(v, b.good_min) THEN RSub(b.good_min, v)
    ELSE IF RLt(b.good_max, v) THEN RSub(v, b.good_max)
    ELSE Num(0)

-----------------------------------------------------------------------------
(* Claims about moving_average (specification SpecSmooth)                  *)

Smoothed == pc = "smoothed"

\* the 0-based positions max(0, i - window div 2) .. min(n - 1, i + window div 2)
\* of the input that hold a value
PresentAround(i) ==
    {j \in 0..(Len(ma_values) - 1) :
        /\ i - (ma_window \div 2) <= j /\ j <= i + (ma_window \div 2)
        /\ ma_values[j + 1] # None}

RECURSIVE SumAt(_)
SumAt(positions) ==
    IF positions = {} THEN Num(0)
    ELSE LET j == CHOOSE x \in positions : TRUE
         IN  RAdd(ma_values[j + 1], SumAt(positions \ {j}))

\* C15: for window > 1 moving_average returns a list of the input's length
\* whose position i is defined exactly when a value is present among the
\* positions max(0, i - window div 2) .. min(n - 1, i + window div 2), and then
\* equals the unweighted mean of exactly those present values; for window <= 1
\* it returns an element-wise equal copy of the input, None entries included.
C15_MovingAverageMeanOfPresent ==
    Smoothed =>
      /\ Len(ma_out) = Len(ma_values)
      /\ ma_window <= 1 => ma_out = ma_values
      /\ ma_window > 1 =>
            \A i \in 0..(Len(ma_values) - 1) :
              /\ ma_out[i + 1] = None <=> PresentAround(i) = {}
              /\ PresentAround(i) # {} =>
                    ma_out[i + 1] = RDiv(SumAt(PresentAround(i)),
                                         Num(Cardinality(PresentAround(i))))

\* an absent entry between two values is filled with their mean, and an entry
\* whose whole span is absent stays absent
C15_Witness ==
    /\ Smoothed
    /\ ma_window = 3
    /\ ma_values = <<Num(1), None, Num(3), None, None>>
    /\ ma_out = <<Num(1), Num(2), Num(3), Num(3), None>>

-----------------------------------------------------------------------------
(* Claims about the pipeline (specification SpecPipeline)                  *)

HasSeries == pc \in {"metrics", "score", "scored"}

HasGlobalMetrics == pc \in {"score", "scored"}

TrunkValues == Present(series.trunk_angle_deg)

RECURSIVE SumSquaredDev(_, _)
SumSquaredDev(values, mean) ==
    IF values = <<>> THEN Num(0)
    ELSE RAdd(RMul(RSub(Head(values), mean), RSub(Head(values), mean)),
              SumSquaredDev(Tail(values), mean))

\* C5 as claimed: the mapping of compute_global_metrics holds trunk_mean and
\* trunk_std beside the min/max/range entries, both defined exactly when the
\* trunk series has a defined value (arithmetic mean, population standard
\* deviation), so that score_row_two_notes on that mapping measures the trunk
\* stability instead of reporting it as not measurable.
C5_TrunkMeanStdComputed ==
    /\ HasGlobalMetrics =>
          /\ {"trunk_min", "trunk_max", "trunk_variation"} \subseteq DOMAIN global_metrics
          /\ (TrunkValues # <<>>) <=> (Get(global_metrics, "trunk_mean") # None)
          /\ (TrunkValues # <<>>) <=> (Get(global_metrics, "trunk_std") # None)
          /\ (TrunkValues # <<>>) =>
                LET mean == RDiv(Sum(TrunkValues), Num(Len(TrunkValues)))
                IN  /\ global_metrics.trunk_mean = mean
                    /\ RMul(global_metrics.trunk_std, global_metrics.trunk_std)
                          = RDiv(SumSquaredDev(TrunkValues, mean), Num(Len(TrunkValues)))
    /\ (Scored /\ TrunkValues # <<>>)
          => MsgTrunkStdMissing \notin Range(result.warnings_trunk)

\* the min/max/range entries are there, and absent exactly for an all-absent series
C5_MinMaxRangePresent ==
    HasGlobalMetrics =>
      /\ DOMAIN global_metrics =
            {"elbow_min", "elbow_max", "elbow_amplitude", "trunk_min", "trunk_max",
             "trunk_variation", "wrist_shoulder_min_dist", "wrist_shoulder_max_dist",
             "wrist_shoulder_range"}
      /\ (TrunkValues # <<>>) <=> (global_metrics.trunk_variation # None)

\* frame i (1-based) and the positions its smoothing span covers
Half == smooth_window \div 2

Span(i) ==
    IF smooth_window <= 1 THEN {i}
    ELSE {j \in 1..Len(frames) : i - Half <= j /\ j <= i + Half}

Has(f, joint) == Get(f, joint) # None

ElbowLandmarks(f) == Has(f, "shoulder") /\ Has(f, "elbow") /\ Has(f, "wrist")
TrunkLandmarks(f) == Has(f, "shoulder") /\ Has(f, "hip") /\ Has(f, "knee")

\* the vertex coincides with neither neighbour
ElbowAngleDefined(f) == f.elbow # f.shoulder /\ f.elbow # f.wrist
TrunkAngleDefined(f) == f.hip # f.shoulder /\ f.hip # f.knee

ElbowValid(f) == ElbowLandmarks(f) /\ ElbowAngleDefined(f)
TrunkValid(f) == TrunkLandmarks(f) /\ TrunkAngleDefined(f)
DistValid(f) == ElbowLandmarks(f)

SameLengths ==
    /\ Len(series.elbow_angle_deg) = Len(frames)
    /\ Len(series.trunk_angle_deg) = Len(frames)
    /\ Len(series.wrist_to_shoulder_dist) = Len(frames)

-----------------------------------------------------------------------------
(* Claims about repetition detection (specification SpecReps)              *)

Detected == pc = "detected"

\* C9 as claimed: the segments, read as closed intervals [start, end], are
\* pairwise non-overlapping and listed in strictly increasing order of start.
C9_SegmentsDisjoint ==
    Detected =>
      \A a, b \in 1..Len(reps) :
         a < b => reps[a].start < reps[b].start /\ reps[a].end < reps[b].start

\* C9 (amended): the segments are listed in strictly increasing order of start
\* and a segment ends no later than the start of every segment listed after
\* it, so two segments share at most the one boundary frame (the minimum that
\* ends one and starts the next).
C9_SegmentsOrderedSharingBoundary ==
    Detected =>
      \A a, b \in 1..Len(reps) :
         a < b => reps[a].start < reps[b].start /\ reps[a].end <= reps[b].start

C9_Witness ==
    /\ Detected /\ Len(reps) = 2
    /\ reps[1].end = reps[2].start

\* a qualifying minimum at Python index i: a defined triple, a strict local
\* minimum, and (vals[i-1] + vals[i+1]) / 2 - vals[i] >= prominence
IsQualifying(i) ==
    LET v == wrist_shoulder_dist[i + 1]
        l == wrist_shoulder_dist[i]
        r == wrist_shoulder_dist[i + 2]
    IN  /\ v # None /\ l # None /\ r # None
        /\ RLt(v, l) /\ RLt(v, r)
        /\ RLe(RMul(Num(2), prominence), RSub(RAdd(l, r), RMul(Num(2), v)))

\* C10: every segment satisfies end >= start + min_frames_per_rep and
\* 1 <= start < end <= len(series) - 2, and start and end are qualifying minima
\* with no other qualifying minimum strictly between them.
C10_SegmentBounds ==
    Detected =>
      \A a \in 1..Len(reps) :
         LET seg == reps[a]
         IN  /\ seg.end >= seg.start + min_frames_per_rep
             /\ 1 <= seg.start /\ seg.start < seg.end
             /\ seg.end <= Len(wrist_shoulder_dist) - 2
             /\ IsQualifying(seg.start) /\ IsQualifying(seg.end)
             /\ \A i \in (seg.start + 1)..(seg.end - 1) : ~IsQualifying(i)

\* one pair of consecutive minima kept, with a non-qualifying dip between them
C10_Witness ==
    /\ Detected /\ Len(reps) = 1
    /\ min_frames_per_rep = 3
    /\ prominence = R(3, 2)
    /\ \E i \in (reps[1].start + 1)..(reps[1].end - 1) :
          /\ wrist_shoulder_dist[i + 1] # None
          /\ wrist_shoulder_dist[i] # None /\ wrist_shoulder_dist[i + 2] # None
          /\ RLt(wrist_shoulder_dist[i + 1], wrist_shoulder_dist[i])
          /\ RLt(wrist_shoulder_dist[i + 1], wrist_shoulder_dist[i + 2])

\* the Python indices of the qualifying minima of the series
QualifyingMinima == {i \in 1..(Len(wrist_shoulder_dist) - 2) : IsQualifying(i)}

\* C16: a series with fewer than two qualifying minima (the empty, one-element,
\* two-element and all-absent series among them) yields the empty list, and a
\* series with exactly two qualifying minima i < j, j - i >= min_frames_per_rep,
\* yields exactly one segment, with start = i and end = j.
C16_FewMinimaNoSegmentTwoMinimaOne ==
    Detected =>
      /\ Cardinality(QualifyingMinima) < 2 => reps = <<>>
      /\ Cardinality(QualifyingMinima) = 2 =>
            \A i, j \in QualifyingMinima :
              (i < j /\ j - i >= min_frames_per_rep)
                => reps = <<[start |-> i, end |-> j]>>

\* two dips four frames apart with nothing qualifying between them
C16_Witness ==
    /\ Detected
    /\ QualifyingMinima = {1, 5}
    /\ min_frames_per_rep = 3
    /\ reps = <<[start |-> 1, end |-> 5]>>

====
